---- MODULE Spec2Model ----
(***************************************************************************)
(* Model of the email data-model layer (src/model/email.rs): the request   *)
(* and response structures, their constructors, the field-level validation *)
(* derived by #[derive(Validate)], and the JSON mapping derived by         *)
(* #[derive(Serialize, Deserialize)].                                      *)
(*                                                                         *)
(* A String is a sequence of characters, each a string naming it; an       *)
(* Option<T> is a sequence of length 0 (None) or 1 (Some).  A structure    *)
(* value is a record [kind, f] where f maps each field identifier to its   *)
(* value.                                                                  *)
(***************************************************************************)
EXTENDS Integers, Sequences, FiniteSets, TLC

VARIABLES obj, out, rx, nsets, checked

vars == <<obj, out, rx, nsets, checked>>

\* ---------------------------------------------------------------- bounds

\* How far below and above a length or range limit the inputs reach.
Slack == 1

\* How many field assignments a caller makes on one structure.
MaxSets == 1

\* ------------------------------------------------------ program constants

\* #[validate(length(min = 1))] on the required strings.
RequiredMin == 1

\* #[validate(length(min = 1, max = 150))] on subject.
SubjectMin == 1

SubjectMax == 150

\* #[validate(length(max = 4000))] on callback_data.
CallbackDataMax == 4000

\* #[validate(range(min = 1, max = 20))] on size.
SizeMin == 1

SizeMax == 20

\* #[validate(range(min = 1))] on page.
PageMin == 1

\* i32::MAX, the largest value an i32 field holds.
I32Max == 2147483647

\* -------------------------------------------------------- Option, String

None == <<>>

Some(v) == <<v>>

IsSome(o) == Len(o) = 1

Unwrap(o) == o[1]

\* A character outside ASCII, as the tests' texts hold: UTF-8 encodes it in
\* two bytes.
EAcute == "e_acute"

\* A text of n characters, the first of them outside ASCII.
Text(n) == [i \in 1..n |-> IF i = 1 THEN EAcute ELSE "a"]

\* s.len(), the length in bytes.
ByteCount(s) == Len(s) + Cardinality({i \in 1..Len(s) : s[i] = EAcute})

\* s.chars().count(), the length the validator measures on a String.
CharCount(s) == Len(s)

\* ----------------------------------------------------------- field names

n_amp_html == <<"a","m","p","_","h","t","m","l">>
n_attachment == <<"a","t","t","a","c","h","m","e","n","t">>
n_bcc == <<"b","c","c">>
n_bulk_id == <<"b","u","l","k","_","i","d">>
n_callback_data == <<"c","a","l","l","b","a","c","k","_","d","a","t","a">>
n_cc == <<"c","c">>
n_clicks == <<"c","l","i","c","k","s">>
n_default_placeholders == <<"d","e","f","a","u","l","t","_","p","l","a","c","e","h","o","l","d","e","r","s">>
n_dkim_key_length == <<"d","k","i","m","_","k","e","y","_","l","e","n","g","t","h">>
n_domain_name == <<"d","o","m","a","i","n","_","n","a","m","e">>
n_from == <<"f","r","o","m">>
n_general_status == <<"g","e","n","e","r","a","l","_","s","t","a","t","u","s">>
n_html == <<"h","t","m","l">>
n_inline_image == <<"i","n","l","i","n","e","_","i","m","a","g","e">>
n_intermediate_report == <<"i","n","t","e","r","m","e","d","i","a","t","e","_","r","e","p","o","r","t">>
n_landing_page_id == <<"l","a","n","d","i","n","g","_","p","a","g","e","_","i","d">>
n_landing_page_placeholders == <<"l","a","n","d","i","n","g","_","p","a","g","e","_","p","l","a","c","e","h","o","l","d","e","r","s">>
n_limit == <<"l","i","m","i","t">>
n_message_id == <<"m","e","s","s","a","g","e","_","i","d">>
n_notify_content_type == <<"n","o","t","i","f","y","_","c","o","n","t","e","n","t","_","t","y","p","e">>
n_notify_url == <<"n","o","t","i","f","y","_","u","r","l">>
n_open == <<"o","p","e","n">>
n_opens == <<"o","p","e","n","s">>
n_page == <<"p","a","g","e">>
n_preserve_recipients == <<"p","r","e","s","e","r","v","e","_","r","e","c","i","p","i","e","n","t","s">>
n_reply_to == <<"r","e","p","l","y","_","t","o">>
n_send_at == <<"s","e","n","d","_","a","t">>
n_sent_since == <<"s","e","n","t","_","s","i","n","c","e">>
n_sent_until == <<"s","e","n","t","_","u","n","t","i","l">>
n_size == <<"s","i","z","e">>
n_status == <<"s","t","a","t","u","s">>
n_subject == <<"s","u","b","j","e","c","t">>
n_template_id == <<"t","e","m","p","l","a","t","e","_","i","d">>
n_text == <<"t","e","x","t">>
n_to == <<"t","o">>
n_track == <<"t","r","a","c","k">>
n_track_clicks == <<"t","r","a","c","k","_","c","l","i","c","k","s">>
n_track_opens == <<"t","r","a","c","k","_","o","p","e","n","s">>
n_tracking_url == <<"t","r","a","c","k","i","n","g","_","u","r","l">>
n_unsubscribe == <<"u","n","s","u","b","s","c","r","i","b","e">>

\* ------------------------------------------------------ field descriptors

\* One declared field: its identifier, its name as characters, its type
\* (with opt for Option<T>), whether it carries
\* #[serde(skip_serializing_if = "Option::is_none")], its #[serde(rename)]
\* and its #[validate(...)] rules.
Field(id, name, ty, opt, skip, rename, rules) ==
  [id |-> id, name |-> name, ty |-> ty, opt |-> opt, skip |-> skip,
   rename |-> rename, rules |-> rules]

\* #[validate(length(min = .., max = ..))]
Length(min, max) == [r |-> "length", min |-> min, max |-> max]

\* #[validate(range(min = .., max = ..))]
Range(min, max) == [r |-> "range", min |-> min, max |-> max]

\* #[validate(url)]
Url == [r |-> "url", min |-> None, max |-> None]

\* struct SendRequestBody (email.rs 6-141): its fields in declaration order.
SendRequestBody ==
  [rename_all |-> "camelCase", validate |-> TRUE, fields |-> <<
    Field("from", n_from, "String", TRUE, TRUE, None, <<>>),
    Field("to", n_to, "String", FALSE, FALSE, None, <<Length(Some(RequiredMin), None)>>),
    Field("cc", n_cc, "String", TRUE, TRUE, None, <<>>),
    Field("bcc", n_bcc, "String", TRUE, TRUE, None, <<>>),
    Field("subject", n_subject, "String", TRUE, TRUE, None, <<Length(Some(SubjectMin), Some(SubjectMax))>>),
    Field("text", n_text, "String", TRUE, TRUE, None, <<>>),
    Field("html", n_html, "String", TRUE, TRUE, None, <<>>),
    Field("amp_html", n_amp_html, "String", TRUE, FALSE, None, <<>>),
    Field("template_id", n_template_id, "i32", TRUE, TRUE, None, <<>>),
    Field("attachment", n_attachment, "String", TRUE, TRUE, None, <<>>),
    Field("inline_image", n_inline_image, "String", TRUE, TRUE, None, <<>>),
    Field("intermediate_report", n_intermediate_report, "bool", TRUE, TRUE, None, <<>>),
    Field("notify_url", n_notify_url, "String", TRUE, TRUE, None, <<Url>>),
    Field("notify_content_type", n_notify_content_type, "String", TRUE, TRUE, None, <<>>),
    Field("callback_data", n_callback_data, "String", TRUE, TRUE, None, <<Length(None, Some(CallbackDataMax))>>),
    Field("track", n_track, "bool", TRUE, TRUE, None, <<>>),
    Field("track_clicks", n_track_clicks, "bool", TRUE, TRUE, None, <<>>),
    Field("track_opens", n_track_opens, "bool", TRUE, TRUE, None, <<>>),
    Field("tracking_url", n_tracking_url, "String", TRUE, TRUE, None, <<Url>>),
    Field("bulk_id", n_bulk_id, "String", TRUE, TRUE, None, <<>>),
    Field("message_id", n_message_id, "String", TRUE, TRUE, None, <<>>),
    Field("reply_to", n_reply_to, "String", TRUE, TRUE, None, <<>>),
    Field("default_placeholders", n_default_placeholders, "String", TRUE, TRUE, None, <<>>),
    Field("preserve_recipients", n_preserve_recipients, "bool", TRUE, TRUE, None, <<>>),
    Field("send_at", n_send_at, "String", TRUE, TRUE, None, <<>>),
    Field("landing_page_placeholders", n_landing_page_placeholders, "String", TRUE, TRUE, None, <<>>),
    Field("landing_page_id", n_landing_page_id, "String", TRUE, TRUE, None, <<>>)
  >>]

\* struct GetBulksQueryParameters (email.rs 254-258): its fields in declaration order.
GetBulksQueryParameters ==
  [rename_all |-> "none", validate |-> TRUE, fields |-> <<
    Field("bulk_id", n_bulk_id, "String", FALSE, FALSE, None, <<Length(Some(RequiredMin), None)>>)
  >>]

\* struct RescheduleRequestBody (email.rs 288-293): its fields in declaration order.
RescheduleRequestBody ==
  [rename_all |-> "camelCase", validate |-> TRUE, fields |-> <<
    Field("send_at", n_send_at, "String", FALSE, FALSE, None, <<Length(Some(RequiredMin), None)>>)
  >>]

\* struct BulkStatusInfo (email.rs 315-322): its fields in declaration order.
BulkStatusInfo ==
  [rename_all |-> "none", validate |-> FALSE, fields |-> <<
    Field("bulk_id", n_bulk_id, "String", TRUE, TRUE, None, <<>>),
    Field("status", n_status, "BulkStatus", TRUE, TRUE, None, <<>>)
  >>]

\* struct UpdateScheduledStatusRequestBody (email.rs 336-340): its fields in declaration order.
UpdateScheduledStatusRequestBody ==
  [rename_all |-> "camelCase", validate |-> TRUE, fields |-> <<
    Field("status", n_status, "BulkStatus", FALSE, FALSE, None, <<>>)
  >>]

\* struct GetDeliveryReportsQueryParameters (email.rs 350-364): its fields in declaration order.
GetDeliveryReportsQueryParameters ==
  [rename_all |-> "camelCase", validate |-> TRUE, fields |-> <<
    Field("bulk_id", n_bulk_id, "String", TRUE, TRUE, None, <<>>),
    Field("message_id", n_message_id, "String", TRUE, TRUE, None, <<>>),
    Field("limit", n_limit, "i32", TRUE, TRUE, None, <<>>)
  >>]

\* struct GetLogsQueryParameters (email.rs 441-477): its fields in declaration order.
GetLogsQueryParameters ==
  [rename_all |-> "camelCase", validate |-> TRUE, fields |-> <<
    Field("message_id", n_message_id, "String", TRUE, TRUE, None, <<>>),
    Field("from", n_from, "String", TRUE, TRUE, None, <<>>),
    Field("to", n_to, "String", TRUE, TRUE, None, <<>>),
    Field("bulk_id", n_bulk_id, "String", TRUE, TRUE, None, <<>>),
    Field("general_status", n_general_status, "String", TRUE, TRUE, None, <<>>),
    Field("sent_since", n_sent_since, "String", TRUE, TRUE, None, <<>>),
    Field("sent_until", n_sent_until, "String", TRUE, TRUE, None, <<>>),
    Field("limit", n_limit, "i32", TRUE, TRUE, None, <<>>)
  >>]

\* struct ValidateAddressRequestBody (email.rs 552-558): its fields in declaration order.
ValidateAddressRequestBody ==
  [rename_all |-> "camelCase", validate |-> TRUE, fields |-> <<
    Field("to", n_to, "String", FALSE, FALSE, None, <<Length(Some(RequiredMin), None)>>)
  >>]

\* GetDomainsQueryParameters with page validated from 0, the default its
\* documentation names.
GetDomainsQueryParameters_PageFromZero ==
  [rename_all |-> "none", validate |-> TRUE, fields |-> <<
    Field("size", n_size, "i32", TRUE, FALSE, None, <<Range(Some(SizeMin), Some(SizeMax))>>),
    Field("page", n_page, "i32", TRUE, FALSE, None, <<Range(Some(0), None)>>)
  >>]

\* struct GetDomainsQueryParameters (email.rs 608-617): its fields in declaration order.
GetDomainsQueryParameters ==
  [rename_all |-> "none", validate |-> TRUE, fields |-> <<
    Field("size", n_size, "i32", TRUE, FALSE, None, <<Range(Some(SizeMin), Some(SizeMax))>>),
    Field("page", n_page, "i32", TRUE, FALSE, None, <<Range(Some(PageMin), None)>>)
  >>]

\* struct AddDomainRequestBody (email.rs 738-746): its fields in declaration order.
AddDomainRequestBody ==
  [rename_all |-> "camelCase", validate |-> TRUE, fields |-> <<
    Field("domain_name", n_domain_name, "String", FALSE, FALSE, None, <<Length(Some(RequiredMin), None)>>),
    Field("dkim_key_length", n_dkim_key_length, "DkimKeyLength", TRUE, TRUE, None, <<>>)
  >>]

\* struct UpdateTrackingRequestBody (email.rs 761-772): its fields in declaration order.
UpdateTrackingRequestBody ==
  [rename_all |-> "camelCase", validate |-> TRUE, fields |-> <<
    Field("opens", n_opens, "bool", TRUE, TRUE, Some(n_open), <<>>),
    Field("clicks", n_clicks, "bool", TRUE, TRUE, None, <<>>),
    Field("unsubscribe", n_unsubscribe, "bool", TRUE, TRUE, None, <<>>)
  >>]

\* ------------------------------------------------------ nested structures

\* #[validate] on a field holding a structure: the structure's own rules.
Nested == [r |-> "nested", each |-> FALSE]

\* #[validate] on a field holding a Vec of structures: the rules of each.
NestedEach == [r |-> "nested", each |-> TRUE]

\* #[validate(regex = ..)] with a pattern that matches exactly the tokens.
Regex(tokens) == [r |-> "regex", tokens |-> tokens]

\* struct Status (email.rs 212-238): its fields in declaration order.
Status ==
  [rename_all |-> "camelCase", validate |-> FALSE, fields |-> <<
    Field("group_id", <<"g","r","o","u","p","_","i","d">>, "i32", TRUE, TRUE, None, <<>>),
    Field("group_name", <<"g","r","o","u","p","_","n","a","m","e">>, "String", TRUE, TRUE, None, <<>>),
    Field("id", <<"i","d">>, "i32", TRUE, TRUE, None, <<>>),
    Field("name", <<"n","a","m","e">>, "String", TRUE, TRUE, None, <<>>),
    Field("description", <<"d","e","s","c","r","i","p","t","i","o","n">>, "String", TRUE, TRUE, None, <<>>),
    Field("action", <<"a","c","t","i","o","n">>, "String", TRUE, TRUE, None, <<>>)
  >>]

\* struct SentMessageDetails (email.rs 176-189): its fields in declaration order.
SentMessageDetails ==
  [rename_all |-> "camelCase", validate |-> FALSE, fields |-> <<
    Field("to", <<"t","o">>, "String", TRUE, TRUE, None, <<>>),
    Field("message_id", <<"m","e","s","s","a","g","e","_","i","d">>, "String", TRUE, TRUE, None, <<>>),
    Field("status", <<"s","t","a","t","u","s">>, "Status", TRUE, TRUE, None, <<>>)
  >>]

\* struct SendResponseBody (email.rs 240-251): its fields in declaration order.
SendResponseBody ==
  [rename_all |-> "camelCase", validate |-> FALSE, fields |-> <<
    Field("bulk_id", <<"b","u","l","k","_","i","d">>, "String", TRUE, TRUE, None, <<>>),
    Field("messages", <<"m","e","s","s","a","g","e","s">>, "Vec<SentMessageDetails>", TRUE, TRUE, None, <<>>)
  >>]

\* struct BulkInfo (email.rs 276-284): its fields in declaration order.
BulkInfo ==
  [rename_all |-> "camelCase", validate |-> FALSE, fields |-> <<
    Field("bulk_id", <<"b","u","l","k","_","i","d">>, "String", TRUE, TRUE, None, <<>>),
    Field("send_at", <<"s","e","n","d","_","a","t">>, "u64", TRUE, TRUE, None, <<>>)
  >>]

\* ---------------------------------------------------------- SMS structures

\* The structures of model/sms.rs, with the fields, constructors and rules
\* that the tests of tests/sms.rs and the specification name.

\* The hour and minute bounds of a delivery time.
HourMax == 23
MinuteMax == 59

\* The recipient types of the Turkey IYS entry.
TurkeyRecipientTypes == {<<"B","I","R","E","Y","S","E","L">>, <<"T","A","C","I","R">>}

\* struct Destination: an address that must be non-empty.
Destination ==
  [rename_all |-> "camelCase", validate |-> TRUE, fields |-> <<
    Field("to", <<"t","o">>, "String", FALSE, FALSE, None, <<Length(Some(RequiredMin), None)>>)
  >>]

\* struct IndiaDlt: a principal entity id that must be non-empty.
IndiaDlt ==
  [rename_all |-> "camelCase", validate |-> TRUE, fields |-> <<
    Field("principal_entity_id", <<"p","r","i","n","c","i","p","a","l","_","e","n","t","i","t","y","_","i","d">>, "String", FALSE, FALSE, None, <<Length(Some(RequiredMin), None)>>)
  >>]

\* struct TurkeyIys: a recipient type out of the fixed vocabulary.
TurkeyIys ==
  [rename_all |-> "camelCase", validate |-> TRUE, fields |-> <<
    Field("recipient_type", <<"r","e","c","i","p","i","e","n","t","_","t","y","p","e">>, "String", FALSE, FALSE, None, <<Regex(TurkeyRecipientTypes)>>)
  >>]

\* struct RegionalOptions: each entry is validated when present.
RegionalOptions ==
  [rename_all |-> "camelCase", validate |-> TRUE, fields |-> <<
    Field("india_dlt", <<"i","n","d","i","a","_","d","l","t">>, "IndiaDlt", TRUE, TRUE, None, <<Nested>>),
    Field("turkey_iys", <<"t","u","r","k","e","y","_","i","y","s">>, "TurkeyIys", TRUE, TRUE, None, <<Nested>>)
  >>]

\* struct DeliveryTime: an hour in [0,23] and a minute in [0,59].
DeliveryTime ==
  [rename_all |-> "camelCase", validate |-> TRUE, fields |-> <<
    Field("hour", <<"h","o","u","r">>, "i32", FALSE, FALSE, None, <<Range(Some(0), Some(HourMax))>>),
    Field("minute", <<"m","i","n","u","t","e">>, "i32", FALSE, FALSE, None, <<Range(Some(0), Some(MinuteMax))>>)
  >>]

\* struct DeliveryTimeWindow: at least one day; from and to validated when present.
DeliveryTimeWindow ==
  [rename_all |-> "camelCase", validate |-> TRUE, fields |-> <<
    Field("days", <<"d","a","y","s">>, "Vec<DeliveryDay>", FALSE, FALSE, None, <<Length(Some(RequiredMin), None)>>),
    Field("from", <<"f","r","o","m">>, "DeliveryTime", TRUE, TRUE, None, <<Nested>>),
    Field("to", <<"t","o">>, "DeliveryTime", TRUE, TRUE, None, <<Nested>>)
  >>]

\* struct SpeedLimit: a non-negative amount, written before the time unit.
SpeedLimit ==
  [rename_all |-> "camelCase", validate |-> TRUE, fields |-> <<
    Field("amount", <<"a","m","o","u","n","t">>, "i32", FALSE, FALSE, None, <<Range(Some(0), None)>>),
    Field("time_unit", <<"t","i","m","e","_","u","n","i","t">>, "TimeUnit", TRUE, TRUE, None, <<>>)
  >>]

\* struct Message: at least one destination, each validated; the optional
\* sub-objects validated when present.
Message ==
  [rename_all |-> "camelCase", validate |-> TRUE, fields |-> <<
    Field("destinations", <<"d","e","s","t","i","n","a","t","i","o","n","s">>, "Vec<Destination>", FALSE, FALSE, None, <<Length(Some(RequiredMin), None), NestedEach>>),
    Field("from", <<"f","r","o","m">>, "String", TRUE, TRUE, None, <<>>),
    Field("text", <<"t","e","x","t">>, "String", TRUE, TRUE, None, <<>>),
    Field("regional", <<"r","e","g","i","o","n","a","l">>, "RegionalOptions", TRUE, TRUE, None, <<Nested>>),
    Field("delivery_time_window", <<"d","e","l","i","v","e","r","y","_","t","i","m","e","_","w","i","n","d","o","w">>, "DeliveryTimeWindow", TRUE, TRUE, None, <<Nested>>)
  >>]

\* struct sms::SendRequestBody: at least one message, each validated; the
\* speed limit validated when present.
Sms_SendRequestBody ==
  [rename_all |-> "camelCase", validate |-> TRUE, fields |-> <<
    Field("messages", <<"m","e","s","s","a","g","e","s">>, "Vec<Message>", FALSE, FALSE, None, <<Length(Some(RequiredMin), None), NestedEach>>),
    Field("sending_speed_limit", <<"s","e","n","d","i","n","g","_","s","p","e","e","d","_","l","i","m","i","t">>, "SpeedLimit", TRUE, TRUE, None, <<Nested>>)
  >>]

\* The structure descriptor of each kind of value.
StructOf(kind) ==
  CASE kind = "SendRequestBody" -> SendRequestBody
    [] kind = "GetBulksQueryParameters" -> GetBulksQueryParameters
    [] kind = "RescheduleRequestBody" -> RescheduleRequestBody
    [] kind = "BulkStatusInfo" -> BulkStatusInfo
    [] kind = "UpdateScheduledStatusRequestBody" -> UpdateScheduledStatusRequestBody
    [] kind = "GetDeliveryReportsQueryParameters" -> GetDeliveryReportsQueryParameters
    [] kind = "GetLogsQueryParameters" -> GetLogsQueryParameters
    [] kind = "ValidateAddressRequestBody" -> ValidateAddressRequestBody
    [] kind = "GetDomainsQueryParameters" -> GetDomainsQueryParameters
    [] kind = "AddDomainRequestBody" -> AddDomainRequestBody
    [] kind = "UpdateTrackingRequestBody" -> UpdateTrackingRequestBody
    [] kind = "Status" -> Status
    [] kind = "SentMessageDetails" -> SentMessageDetails
    [] kind = "SendResponseBody" -> SendResponseBody
    [] kind = "BulkInfo" -> BulkInfo
    [] kind = "Destination" -> Destination
    [] kind = "IndiaDlt" -> IndiaDlt
    [] kind = "TurkeyIys" -> TurkeyIys
    [] kind = "RegionalOptions" -> RegionalOptions
    [] kind = "DeliveryTime" -> DeliveryTime
    [] kind = "DeliveryTimeWindow" -> DeliveryTimeWindow
    [] kind = "SpeedLimit" -> SpeedLimit
    [] kind = "Message" -> Message
    [] kind = "sms::SendRequestBody" -> Sms_SendRequestBody

\* The types that are structures, and the Vec types with their element type.
IsStruct(ty) ==
  ty \in {"Status", "SentMessageDetails", "Destination", "IndiaDlt", "TurkeyIys",
          "RegionalOptions", "DeliveryTime", "DeliveryTimeWindow", "SpeedLimit",
          "Message"}

IsVec(ty) ==
  ty \in {"Vec<SentMessageDetails>", "Vec<Destination>", "Vec<Message>", "Vec<DeliveryDay>"}

ElemOf(ty) ==
  CASE ty = "Vec<SentMessageDetails>" -> "SentMessageDetails"
    [] ty = "Vec<Destination>" -> "Destination"
    [] ty = "Vec<Message>" -> "Message"
    [] ty = "Vec<DeliveryDay>" -> "DeliveryDay"

FieldsOf(kind) == StructOf(kind).fields

FieldIndex(kind, id) == CHOOSE i \in 1..Len(FieldsOf(kind)) : FieldsOf(kind)[i].id = id

FieldOf(kind, id) == FieldsOf(kind)[FieldIndex(kind, id)]

FieldIds(kind) == {FieldsOf(kind)[i].id : i \in 1..Len(FieldsOf(kind))}

\* ------------------------------------------------------------ enumerations

\* One enum variant: its identifier, its name as characters, its
\* #[serde(rename)] and its explicit discriminant.
Variant(id, name, rename, discriminant) ==
  [id |-> id, name |-> name, rename |-> rename, discriminant |-> discriminant]

\* enum BulkStatus (email.rs 305-313)
BulkStatus ==
  << Variant("PENDING", <<"P","E","N","D","I","N","G">>, None, None),
     Variant("PAUSED", <<"P","A","U","S","E","D">>, None, None),
     Variant("PROCESSING", <<"P","R","O","C","E","S","S","I","N","G">>, None, None),
     Variant("CANCELED", <<"C","A","N","C","E","L","E","D">>, None, None),
     Variant("FINISHED", <<"F","I","N","I","S","H","E","D">>, None, None),
     Variant("FAILED", <<"F","A","I","L","E","D">>, None, None) >>

\* enum DkimKeyLength (email.rs 730-736)
DkimKeyLength ==
  << Variant("L1024", <<"L","1","0","2","4">>, Some(<<"1","0","2","4">>), Some(1024)),
     Variant("L2048", <<"L","2","0","4","8">>, Some(<<"2","0","4","8">>), Some(2048)) >>

\* enum TimeUnit: the time units of a speed limit.
TimeUnit ==
  << Variant("MINUTE", <<"M","I","N","U","T","E">>, None, None),
     Variant("HOUR", <<"H","O","U","R">>, None, None),
     Variant("DAY", <<"D","A","Y">>, None, None) >>

\* enum DeliveryDay: the days of a delivery time window.
DeliveryDay ==
  << Variant("MONDAY", <<"M","O","N","D","A","Y">>, None, None),
     Variant("TUESDAY", <<"T","U","E","S","D","A","Y">>, None, None),
     Variant("WEDNESDAY", <<"W","E","D","N","E","S","D","A","Y">>, None, None),
     Variant("THURSDAY", <<"T","H","U","R","S","D","A","Y">>, None, None),
     Variant("FRIDAY", <<"F","R","I","D","A","Y">>, None, None),
     Variant("SATURDAY", <<"S","A","T","U","R","D","A","Y">>, None, None),
     Variant("SUNDAY", <<"S","U","N","D","A","Y">>, None, None) >>

EnumOf(ty) ==
  CASE ty = "BulkStatus" -> BulkStatus
    [] ty = "DkimKeyLength" -> DkimKeyLength
    [] ty = "TimeUnit" -> TimeUnit
    [] ty = "DeliveryDay" -> DeliveryDay

IsEnum(ty) == ty \in {"BulkStatus", "DkimKeyLength", "TimeUnit", "DeliveryDay"}

VariantIds(ty) == {EnumOf(ty)[i].id : i \in 1..Len(EnumOf(ty))}

VariantOf(ty, id) == EnumOf(ty)[CHOOSE i \in 1..Len(EnumOf(ty)) : EnumOf(ty)[i].id = id]

\* ------------------------------------------------------------ serde naming

Lowers ==
  <<"a","b","c","d","e","f","g","h","i","j","k","l","m",
    "n","o","p","q","r","s","t","u","v","w","x","y","z">>

Uppers ==
  <<"A","B","C","D","E","F","G","H","I","J","K","L","M",
    "N","O","P","Q","R","S","T","U","V","W","X","Y","Z">>

\* char::to_ascii_uppercase
ToAsciiUppercase(c) ==
  IF \E i \in 1..Len(Lowers) : Lowers[i] = c
  THEN Uppers[CHOOSE i \in 1..Len(Lowers) : Lowers[i] = c]
  ELSE c

\* char::to_ascii_lowercase
ToAsciiLowercase(c) ==
  IF \E i \in 1..Len(Uppers) : Uppers[i] = c
  THEN Lowers[CHOOSE i \in 1..Len(Uppers) : Uppers[i] = c]
  ELSE c

\* serde's RenameRule::PascalCase applied to a field name: every '_' is
\* dropped and the character after it (and the first one) is upper-cased.
RECURSIVE PascalFrom(_, _, _)
PascalFrom(field, i, capitalize) ==
  IF i > Len(field) THEN <<>>
  ELSE IF field[i] = "_" THEN PascalFrom(field, i + 1, TRUE)
  ELSE IF capitalize
       THEN <<ToAsciiUppercase(field[i])>> \o PascalFrom(field, i + 1, FALSE)
       ELSE <<field[i]>> \o PascalFrom(field, i + 1, FALSE)

PascalCase(field) == PascalFrom(field, 1, TRUE)

\* serde's RenameRule::CamelCase applied to a field name: the PascalCase
\* form with its first character lower-cased.
CamelCase(field) ==
  LET pascal == PascalCase(field)
  IN  <<ToAsciiLowercase(pascal[1])>> \o Tail(pascal)

\* WireName without the field's own #[serde(rename)].
WireNameIgnoringRename(struct, fd) ==
  IF struct.rename_all = "camelCase" THEN CamelCase(fd.name) ELSE fd.name

\* The key a field has on the wire: its #[serde(rename)] if it has one,
\* else the struct's rename_all rule applied to its name, else its name.
WireName(struct, fd) ==
  IF IsSome(fd.rename) THEN Unwrap(fd.rename)
  ELSE IF struct.rename_all = "camelCase" THEN CamelCase(fd.name)
  ELSE fd.name

\* The token a unit variant has on the wire.
VariantWireName(v) == IF IsSome(v.rename) THEN Unwrap(v.rename) ELSE v.name

\* ------------------------------------------------------------- validation

Alpha == {Lowers[i] : i \in 1..Len(Lowers)} \cup {Uppers[i] : i \in 1..Len(Uppers)}

Digit == {"0","1","2","3","4","5","6","7","8","9"}

SchemeChar == Alpha \cup Digit \cup {"+", "-", "."}

\* The schemes the URL standard calls special and that need a host.
SpecialSchemes ==
  { <<"h","t","t","p">>, <<"h","t","t","p","s">>, <<"w","s">>,
    <<"w","s","s">>, <<"f","t","p">> }

\* Code points a host may not contain (those of the model's alphabet).
ForbiddenHost == {" ", "<", ">", "^", "|"}

Colons(s) == {i \in 1..Len(s) : s[i] = ":"}

Min(S) == CHOOSE x \in S : \A y \in S : x <= y

RECURSIVE SkipSlashes(_)
SkipSlashes(s) ==
  IF s # <<>> /\ Head(s) \in {"/", "\\"} THEN SkipSlashes(Tail(s)) ELSE s

RECURSIVE HostOf(_)
HostOf(s) ==
  IF s = <<>> \/ Head(s) \in {"/", "?", "#", "\\"} THEN <<>>
  ELSE <<Head(s)>> \o HostOf(Tail(s))

\* Url::parse(s).is_ok() without a base URL, for inputs with no userinfo,
\* port, query or fragment: a scheme (a letter, then letters, digits, + - .)
\* ended by ':' is required; a special scheme needs a non-empty host of
\* allowed code points after any number of slashes; another scheme takes an
\* opaque path, or after "//" a host of allowed code points.
ParsesAsUrl(s) ==
  /\ Colons(s) # {}
  /\ LET c == Min(Colons(s))
         scheme == SubSeq(s, 1, c - 1)
         rest == SubSeq(s, c + 1, Len(s))
     IN  /\ c >= 2
         /\ s[1] \in Alpha
         /\ \A j \in 2..(c - 1) : s[j] \in SchemeChar
         /\ IF scheme \in SpecialSchemes
            THEN LET host == HostOf(SkipSlashes(rest))
                 IN  host # <<>> /\ \A j \in 1..Len(host) : host[j] \notin ForbiddenHost
            ELSE IF Len(rest) >= 2 /\ rest[1] = "/" /\ rest[2] = "/"
            THEN LET host == HostOf(SubSeq(rest, 3, Len(rest)))
                 IN  \A j \in 1..Len(host) : host[j] \notin ForbiddenHost
            ELSE TRUE

\* ValidateLength without the upper bound.
ValidateLengthNoMax(s, min, max) == IsSome(min) => CharCount(s) >= Unwrap(min)

\* ValidateLength without the lower bound.
ValidateLengthNoMin(s, min, max) == IsSome(max) => CharCount(s) <= Unwrap(max)

\* validator::validate_length on a String: the character count against the
\* bounds that are given.
ValidateLength(s, min, max) ==
  /\ IsSome(min) => CharCount(s) >= Unwrap(min)
  /\ IsSome(max) => CharCount(s) <= Unwrap(max)

\* ValidateRange with the upper bound exclusive.
ValidateRangeExclusiveMax(n, min, max) ==
  /\ IsSome(min) => n >= Unwrap(min)
  /\ IsSome(max) => n < Unwrap(max)

\* validator::validate_range: both bounds inclusive.
ValidateRange(n, min, max) ==
  /\ IsSome(min) => n >= Unwrap(min)
  /\ IsSome(max) => n <= Unwrap(max)

\* ValidateUrl that only asks for a non-empty string.
ValidateUrlNonEmpty(s) == s # <<>>

\* validator::validate_url
ValidateUrl(s) == ParsesAsUrl(s)

\* ValidateRegex that only asks for a non-empty string.
ValidateRegexNonEmpty(s, tokens) == s # <<>>

\* validator::validate_regex, for a pattern that matches exactly the tokens.
ValidateRegex(s, tokens) == s \in tokens

RECURSIVE Validate(_)

\* RuleHolds that does not descend into nested structures.
RuleHoldsIgnoringNested(rule, v) ==
  CASE rule.r = "length" -> ValidateLength(v, rule.min, rule.max)
    [] rule.r = "range" -> ValidateRange(v, rule.min, rule.max)
    [] rule.r = "url" -> ValidateUrl(v)
    [] rule.r = "regex" -> ValidateRegex(v, rule.tokens)
    [] rule.r = "nested" -> TRUE

\* A nested structure passes when its own validate() returns Ok; a Vec of
\* structures when each element's does.
RuleHolds(rule, v) ==
  CASE rule.r = "length" -> ValidateLength(v, rule.min, rule.max)
    [] rule.r = "range" -> ValidateRange(v, rule.min, rule.max)
    [] rule.r = "url" -> ValidateUrl(v)
    [] rule.r = "regex" -> ValidateRegex(v, rule.tokens)
    [] rule.r = "nested" ->
         IF rule.each THEN \A i \in 1..Len(v) : Validate(v[i]) = {}
         ELSE Validate(v) = {}

\* The codes of the rules of one field that its value breaks.  The rules of
\* an Option field are applied to the inner value, and only when it is Some.
FieldErrors(fd, value) ==
  IF fd.opt /\ ~IsSome(value) THEN {}
  ELSE LET inner == IF fd.opt THEN Unwrap(value) ELSE value
       IN  {fd.rules[i].r : i \in {j \in 1..Len(fd.rules) : ~RuleHolds(fd.rules[j], inner)}}

\* Validate with the content rule of the API added: a send request needs a
\* template, or a subject with a text or html body.
ValidateWithContentRule(o) ==
  {[field |-> id, code |-> c] :
     <<id, c>> \in UNION {{<<fid, code>> : code \in FieldErrors(FieldOf(o.kind, fid), o.f[fid])} :
                            fid \in FieldIds(o.kind)}}
  \cup (IF /\ o.kind = "SendRequestBody"
           /\ ~IsSome(o.f.template_id)
           /\ (~IsSome(o.f.subject) \/ (~IsSome(o.f.text) /\ ~IsSome(o.f.html)))
        THEN {[field |-> "__all__", code |-> "content"]} ELSE {})

\* Validate that checks the required fields only.
ValidateRequiredOnly(o) ==
  {[field |-> id, code |-> c] :
     <<id, c>> \in UNION {{<<fid, code>> : code \in FieldErrors(FieldOf(o.kind, fid), o.f[fid])} :
                            fid \in {g \in FieldIds(o.kind) : ~FieldOf(o.kind, g).opt}}}

\* Validate that returns at the first field with an error.
ValidateFirstFieldOnly(o) ==
  LET failing == {i \in 1..Len(FieldsOf(o.kind)) :
                    FieldErrors(FieldsOf(o.kind)[i], o.f[FieldsOf(o.kind)[i].id]) # {}}
  IN  IF failing = {} THEN {}
      ELSE LET first == CHOOSE i \in failing : \A j \in failing : i <= j
               fd == FieldsOf(o.kind)[first]
           IN  {[field |-> fd.id, code |-> c] : c \in FieldErrors(fd, o.f[fd.id])}

\* The derived Validate::validate: every field is checked and every error
\* is added to the ValidationErrors map, keyed by field; the result is
\* Ok(()) exactly when the map is empty.  Modelled as the set of
\* [field, code] entries of that map.
Validate(o) ==
  {[field |-> id, code |-> c] :
     <<id, c>> \in UNION {{<<fid, code>> : code \in FieldErrors(FieldOf(o.kind, fid), o.f[fid])} :
                            fid \in FieldIds(o.kind)}}

IsOk(errors) == errors = {}

\* ------------------------------------------------------------------- JSON

\* A JSON value is [k, v] with k its kind and v its text (for a string, its
\* characters); a JSON object is a sequence of [key, val] members in
\* document order.
JNull == [k |-> "null", v |-> <<"n","u","l","l">>]

JString(s) == [k |-> "string", v |-> s]

Digits == <<"0","1","2","3","4","5","6","7","8","9">>

RECURSIVE DecimalNat(_)
DecimalNat(n) ==
  IF n < 10 THEN <<Digits[n + 1]>>
  ELSE DecimalNat(n \div 10) \o <<Digits[(n % 10) + 1]>>

\* The decimal text serde_json writes for an integer.
Decimal(n) == IF n < 0 THEN <<"-">> \o DecimalNat(-n) ELSE DecimalNat(n)

JNumber(n) == [k |-> "number", v |-> Decimal(n)]

JBool(b) == [k |-> "bool", v |-> IF b THEN <<"t","r","u","e">> ELSE <<"f","a","l","s","e">>]

IsNatLiteral(s) == s # <<>> /\ \A i \in 1..Len(s) : s[i] \in Digit

IsIntLiteral(s) == IsNatLiteral(s) \/ (s # <<>> /\ Head(s) = "-" /\ IsNatLiteral(Tail(s)))

DigitValue(c) == CHOOSE d \in 0..9 : Digits[d + 1] = c

RECURSIVE ParseNat(_)
ParseNat(s) ==
  IF Len(s) = 1 THEN DigitValue(s[1])
  ELSE ParseNat(SubSeq(s, 1, Len(s) - 1)) * 10 + DigitValue(s[Len(s)])

\* The integer a JSON number's text denotes.
ParseInt(s) == IF Head(s) = "-" THEN -ParseNat(Tail(s)) ELSE ParseNat(s)

Member(key, val) == [key |-> key, val |-> val]

\* A JSON object holds its members, a JSON array its items.
JObject(members) == [k |-> "object", v |-> members]

JArray(items) == [k |-> "array", v |-> items]

RECURSIVE ToJson(_)
RECURSIVE ValueToJson(_, _)
RECURSIVE FromJson(_, _)
RECURSIVE JsonToValue(_, _)

\* Serialize for a value of type ty: a String as a JSON string, an i32 as a
\* JSON number, a bool as a JSON boolean; a unit variant of a derived enum
\* through serialize_unit_variant, which serde_json writes as a JSON string
\* holding the variant's wire name; a structure as the object its own
\* Serialize writes, a Vec as the array of its elements.
ValueToJson(ty, v) ==
  CASE ty = "String" -> JString(v)
    [] ty = "i32" -> JNumber(v)
    [] ty = "bool" -> JBool(v)
    [] IsEnum(ty) -> JString(VariantWireName(VariantOf(ty, v)))
    [] ty = "u64" -> JNumber(v)
    [] IsStruct(ty) -> JObject(ToJson(v))
    [] IsVec(ty) -> JArray([i \in 1..Len(v) |-> ValueToJson(ElemOf(ty), v[i])])

\* Serialize for a field's value: None is written as null.
FieldToJson(fd, value) ==
  IF fd.opt
  THEN IF IsSome(value) THEN ValueToJson(fd.ty, Unwrap(value)) ELSE JNull
  ELSE ValueToJson(fd.ty, value)

\* Skipped that leaves no field out.
SkippedNever(fd, value) == FALSE

\* Whether the derived Serialize leaves the field out:
\* skip_serializing_if = "Option::is_none" on a value that is None.
Skipped(fd, value) == fd.skip /\ ~IsSome(value)

RECURSIVE SerializeFrom(_, _, _)
SerializeFrom(struct, f, i) ==
  IF i > Len(struct.fields) THEN <<>>
  ELSE LET fd == struct.fields[i]
       IN  (IF Skipped(fd, f[fd.id]) THEN <<>>
            ELSE <<Member(WireName(struct, fd), FieldToJson(fd, f[fd.id]))>>)
           \o SerializeFrom(struct, f, i + 1)

\* The derived Serialize of a structure through serde_json: one member per
\* field that is not skipped, in declaration order.
ToJson(o) == SerializeFrom(StructOf(o.kind), o.f, 1)

Keys(doc) == {doc[i].key : i \in 1..Len(doc)}

HasKey(doc, key) == \E i \in 1..Len(doc) : doc[i].key = key

ValueAt(doc, key) == doc[CHOOSE i \in 1..Len(doc) : doc[i].key = key].val

\* JsonToValue that falls back to the first variant on an unknown token.
JsonToValueDefaulting(ty, j) ==
  CASE ty = "String" -> [ok |-> j.k = "string", v |-> j.v]
    [] ty = "i32" ->
         IF j.k = "number" /\ IsIntLiteral(j.v)
         THEN [ok |-> TRUE, v |-> ParseInt(j.v)]
         ELSE [ok |-> FALSE, v |-> 0]
    [] ty = "bool" -> [ok |-> j.k = "bool", v |-> j.v = JBool(TRUE).v]
    [] IsEnum(ty) ->
         IF j.k = "string" /\ \E id \in VariantIds(ty) : VariantWireName(VariantOf(ty, id)) = j.v
         THEN [ok |-> TRUE,
               v |-> CHOOSE id \in VariantIds(ty) : VariantWireName(VariantOf(ty, id)) = j.v]
         ELSE [ok |-> TRUE, v |-> EnumOf(ty)[1].id]
    [] ty = "u64" ->
         IF j.k = "number" /\ IsNatLiteral(j.v)
         THEN [ok |-> TRUE, v |-> ParseInt(j.v)]
         ELSE [ok |-> FALSE, v |-> 0]
    [] IsStruct(ty) ->
         IF j.k = "object"
         THEN [ok |-> FromJson(ty, j.v).ok, v |-> FromJson(ty, j.v).value]
         ELSE [ok |-> FALSE, v |-> ""]
    [] IsVec(ty) ->
         IF j.k = "array"
         THEN [ok |-> \A i \in 1..Len(j.v) : JsonToValue(ElemOf(ty), j.v[i]).ok,
               v |-> [i \in 1..Len(j.v) |-> JsonToValue(ElemOf(ty), j.v[i]).v]]
         ELSE [ok |-> FALSE, v |-> ""]

\* Deserialize for a value of type ty from a JSON value: [ok, v] (the
\* numbers of the documents tried all fit an i32).  A unit
\* variant is read from a JSON string naming one of the variants; any other
\* string, and any number, boolean or null, is an error.  A structure is
\* read from an object by its own Deserialize, a Vec from an array.
JsonToValue(ty, j) ==
  CASE ty = "String" -> [ok |-> j.k = "string", v |-> j.v]
    [] ty = "i32" ->
         IF j.k = "number" /\ IsIntLiteral(j.v)
         THEN [ok |-> TRUE, v |-> ParseInt(j.v)]
         ELSE [ok |-> FALSE, v |-> 0]
    [] ty = "bool" -> [ok |-> j.k = "bool", v |-> j.v = JBool(TRUE).v]
    [] IsEnum(ty) ->
         IF j.k = "string" /\ \E id \in VariantIds(ty) : VariantWireName(VariantOf(ty, id)) = j.v
         THEN [ok |-> TRUE,
               v |-> CHOOSE id \in VariantIds(ty) : VariantWireName(VariantOf(ty, id)) = j.v]
         ELSE [ok |-> FALSE, v |-> ""]
    [] ty = "u64" ->
         IF j.k = "number" /\ IsNatLiteral(j.v)
         THEN [ok |-> TRUE, v |-> ParseInt(j.v)]
         ELSE [ok |-> FALSE, v |-> 0]
    [] IsStruct(ty) ->
         IF j.k = "object"
         THEN [ok |-> FromJson(ty, j.v).ok, v |-> FromJson(ty, j.v).value]
         ELSE [ok |-> FALSE, v |-> ""]
    [] IsVec(ty) ->
         IF j.k = "array"
         THEN [ok |-> \A i \in 1..Len(j.v) : JsonToValue(ElemOf(ty), j.v[i]).ok,
               v |-> [i \in 1..Len(j.v) |-> JsonToValue(ElemOf(ty), j.v[i]).v]]
         ELSE [ok |-> FALSE, v |-> ""]

\* FieldFromJson that takes a missing key for an error, Option or not.
FieldFromJsonRequiringKey(struct, fd, doc) ==
  LET at == {i \in 1..Len(doc) : doc[i].key = WireName(struct, fd)}
  IN  IF Cardinality(at) # 1 THEN [ok |-> FALSE, v |-> None]
      ELSE LET j == doc[CHOOSE i \in at : TRUE].val
           IN  IF fd.opt /\ j.k = "null" THEN [ok |-> TRUE, v |-> None]
               ELSE LET r == JsonToValue(fd.ty, j)
                    IN  [ok |-> r.ok, v |-> IF fd.opt THEN Some(r.v) ELSE r.v]

\* The derived Deserialize for one field: the members whose key is the
\* field's wire name.  Two of them is an error (duplicate field); none gives
\* None for an Option field and is an error (missing field) otherwise; null
\* gives None for an Option field.
FieldFromJson(struct, fd, doc) ==
  LET at == {i \in 1..Len(doc) : doc[i].key = WireName(struct, fd)}
  IN  IF Cardinality(at) > 1 THEN [ok |-> FALSE, v |-> None]
      ELSE IF at = {} THEN [ok |-> fd.opt, v |-> None]
      ELSE LET j == doc[CHOOSE i \in at : TRUE].val
           IN  IF fd.opt /\ j.k = "null" THEN [ok |-> TRUE, v |-> None]
               ELSE LET r == JsonToValue(fd.ty, j)
                    IN  [ok |-> r.ok, v |-> IF fd.opt THEN Some(r.v) ELSE r.v]

\* The derived Deserialize of a structure through serde_json: [ok, value].
\* Members with other keys are ignored; an error in one field is the error
\* of the whole document.
FromJson(kind, doc) ==
  LET struct == StructOf(kind)
  IN  [ok |-> \A id \in FieldIds(kind) : FieldFromJson(struct, FieldOf(kind, id), doc).ok,
       value |-> [kind |-> kind,
                  f |-> [id \in FieldIds(kind) |-> FieldFromJson(struct, FieldOf(kind, id), doc).v]]]

\* serde_json::to_string: the compact text of a JSON value, members and
\* items separated by commas (the strings written here hold no character
\* that is escaped).
RECURSIVE JsonText(_)
RECURSIVE MembersText(_)
RECURSIVE ItemsText(_)
MembersText(ms) ==
  IF Len(ms) = 0 THEN <<>>
  ELSE <<"\"">> \o ms[1].key \o <<"\"", ":">> \o JsonText(ms[1].val)
       \o (IF Len(ms) > 1 THEN <<",">> \o MembersText(Tail(ms)) ELSE <<>>)

ItemsText(items) ==
  IF Len(items) = 0 THEN <<>>
  ELSE JsonText(items[1])
       \o (IF Len(items) > 1 THEN <<",">> \o ItemsText(Tail(items)) ELSE <<>>)

JsonText(j) ==
  CASE j.k = "string" -> <<"\"">> \o j.v \o <<"\"">>
    [] j.k = "object" -> <<"{">> \o MembersText(j.v) \o <<"}">>
    [] j.k = "array" -> <<"[">> \o ItemsText(j.v) \o <<"]">>
    [] OTHER -> j.v

\* str::contains
Contains(text, fragment) ==
  \E i \in 0..(Len(text) - Len(fragment)) :
     SubSeq(text, i + 1, i + Len(fragment)) = fragment

\* ----------------------------------------------------------- constructors

\* SendRequestBody::new that pre-fills subject with the empty string.
SendRequestBody_new_EmptySubject(to) ==
  [kind |-> "SendRequestBody",
   f |-> [from |-> None, to |-> to, cc |-> None, bcc |-> None, subject |-> Some(<<>>),
          text |-> None, html |-> None, amp_html |-> None, template_id |-> None,
          attachment |-> None, inline_image |-> None, intermediate_report |-> None,
          notify_url |-> None, notify_content_type |-> None, callback_data |-> None,
          track |-> None, track_clicks |-> None, track_opens |-> None,
          tracking_url |-> None, bulk_id |-> None, message_id |-> None,
          reply_to |-> None, default_placeholders |-> None,
          preserve_recipients |-> None, send_at |-> None,
          landing_page_placeholders |-> None, landing_page_id |-> None]]

\* SendRequestBody::new
SendRequestBody_new(to) ==
  [kind |-> "SendRequestBody",
   f |-> [from |-> None, to |-> to, cc |-> None, bcc |-> None, subject |-> None,
          text |-> None, html |-> None, amp_html |-> None, template_id |-> None,
          attachment |-> None, inline_image |-> None, intermediate_report |-> None,
          notify_url |-> None, notify_content_type |-> None, callback_data |-> None,
          track |-> None, track_clicks |-> None, track_opens |-> None,
          tracking_url |-> None, bulk_id |-> None, message_id |-> None,
          reply_to |-> None, default_placeholders |-> None,
          preserve_recipients |-> None, send_at |-> None,
          landing_page_placeholders |-> None, landing_page_id |-> None]]

\* GetBulksQueryParameters::new
GetBulksQueryParameters_new(bulk_id) ==
  [kind |-> "GetBulksQueryParameters", f |-> [bulk_id |-> bulk_id]]

\* RescheduleRequestBody::new
RescheduleRequestBody_new(send_at) ==
  [kind |-> "RescheduleRequestBody", f |-> [send_at |-> send_at]]

\* UpdateScheduledStatusRequestBody::new
UpdateScheduledStatusRequestBody_new(status) ==
  [kind |-> "UpdateScheduledStatusRequestBody", f |-> [status |-> status]]

\* GetDeliveryReportsQueryParameters::new
GetDeliveryReportsQueryParameters_new ==
  [kind |-> "GetDeliveryReportsQueryParameters",
   f |-> [bulk_id |-> None, message_id |-> None, limit |-> None]]

\* GetLogsQueryParameters::new
GetLogsQueryParameters_new ==
  [kind |-> "GetLogsQueryParameters",
   f |-> [message_id |-> None, from |-> None, to |-> None, bulk_id |-> None,
          general_status |-> None, sent_since |-> None, sent_until |-> None,
          limit |-> None]]

\* ValidateAddressRequestBody::new
ValidateAddressRequestBody_new(to) ==
  [kind |-> "ValidateAddressRequestBody", f |-> [to |-> to]]

\* GetDomainsQueryParameters::new
GetDomainsQueryParameters_new ==
  [kind |-> "GetDomainsQueryParameters", f |-> [size |-> None, page |-> None]]

\* AddDomainRequestBody::new
AddDomainRequestBody_new(domain_name) ==
  [kind |-> "AddDomainRequestBody",
   f |-> [domain_name |-> domain_name, dkim_key_length |-> None]]

\* UpdateTrackingRequestBody::new
UpdateTrackingRequestBody_new ==
  [kind |-> "UpdateTrackingRequestBody",
   f |-> [opens |-> None, clicks |-> None, unsubscribe |-> None]]

\* Destination::new
Destination_new(to) == [kind |-> "Destination", f |-> [to |-> to]]

\* IndiaDlt::new
IndiaDlt_new(principal_entity_id) ==
  [kind |-> "IndiaDlt", f |-> [principal_entity_id |-> principal_entity_id]]

\* TurkeyIys::new
TurkeyIys_new(recipient_type) ==
  [kind |-> "TurkeyIys", f |-> [recipient_type |-> recipient_type]]

\* RegionalOptions::new
RegionalOptions_new ==
  [kind |-> "RegionalOptions", f |-> [india_dlt |-> None, turkey_iys |-> None]]

\* DeliveryTime::new
DeliveryTime_new(hour, minute) ==
  [kind |-> "DeliveryTime", f |-> [hour |-> hour, minute |-> minute]]

\* DeliveryTimeWindow::new
DeliveryTimeWindow_new(days) ==
  [kind |-> "DeliveryTimeWindow", f |-> [days |-> days, from |-> None, to |-> None]]

\* SpeedLimit::new
SpeedLimit_new(amount) ==
  [kind |-> "SpeedLimit", f |-> [amount |-> amount, time_unit |-> None]]

\* Message::new
Message_new(destinations) ==
  [kind |-> "Message",
   f |-> [destinations |-> destinations, from |-> None, text |-> None,
          regional |-> None, delivery_time_window |-> None]]

\* sms::SendRequestBody::new
Sms_SendRequestBody_new(messages) ==
  [kind |-> "sms::SendRequestBody",
   f |-> [messages |-> messages, sending_speed_limit |-> None]]

\* ------------------------------------------------------------------ inputs

Near(x) == {n \in (x - Slack)..(x + Slack) : TRUE}

\* The lengths tried for a length rule: around each bound it gives, and
\* from the empty string up otherwise.
LenPoints(min, max) ==
  {n \in (IF IsSome(min) THEN Near(Unwrap(min)) ELSE 0..Slack)
         \cup (IF IsSome(max) THEN Near(Unwrap(max)) ELSE {}) : n >= 0}

\* The numbers tried for a range rule: around each bound it gives, and
\* i32::MAX.
RangePoints(min, max) ==
  (IF IsSome(min) THEN Near(Unwrap(min)) ELSE {})
  \cup (IF IsSome(max) THEN Near(Unwrap(max)) ELSE {})
  \cup {I32Max}

\* The strings tried for a url rule.
UrlInputs ==
  { <<"h","t","t","p","s",":","/","/","s","o","m","e",".","u","r","l">>,
    <<"a",":","b">>,
    <<>>,
    <<"a","b","c">>,
    <<"1","a",":","/","/","a">>,
    <<"h","t","t","p",":","/","/">>,
    <<"h","t","t","p",":","/","/","a"," ","b">> }

HasRule(fd, r) == \E i \in 1..Len(fd.rules) : fd.rules[i].r = r

RuleOf(fd, r) == fd.rules[CHOOSE i \in 1..Len(fd.rules) : fd.rules[i].r = r]

\* The values tried for a field (for the inner value of an Option field);
\* none for a field that holds structures.
Values(fd) ==
  CASE IsStruct(fd.ty) \/ IsVec(fd.ty) -> {}
    [] HasRule(fd, "url") -> UrlInputs
    [] HasRule(fd, "length") ->
         {Text(n) : n \in LenPoints(RuleOf(fd, "length").min, RuleOf(fd, "length").max)}
    [] HasRule(fd, "range") -> RangePoints(RuleOf(fd, "range").min, RuleOf(fd, "range").max)
    [] fd.ty = "String" -> {<<"a">>}
    [] fd.ty = "i32" -> {2}
    [] fd.ty = "bool" -> BOOLEAN
    [] IsEnum(fd.ty) -> VariantIds(fd.ty)
    [] fd.ty = "u64" -> {2}

\* The values a caller may assign to a field.
SetInputs(fd) == IF fd.opt THEN {None} \cup {Some(v) : v \in Values(fd)} ELSE Values(fd)

\* Fields that are not pub: ValidateAddressRequestBody.to (email.rs 557).
IsPub(kind, id) == ~(kind = "ValidateAddressRequestBody" /\ id = "to")

Bogus == <<"B","O","G","U","S">>

RECURSIVE LowerAll(_)
LowerAll(s) == IF s = <<>> THEN <<>> ELSE <<ToAsciiLowercase(Head(s))>> \o LowerAll(Tail(s))

\* The JSON values a received document may carry for a field: for an enum,
\* each variant's wire name, its Rust name, its lower-case form, its
\* discriminant and its ordinal as numbers, and an unknown token.
JsonInputs(fd) ==
  {JNull} \cup
  (CASE IsEnum(fd.ty) ->
          UNION {{JString(VariantWireName(EnumOf(fd.ty)[i])),
                  JString(EnumOf(fd.ty)[i].name),
                  JString(LowerAll(EnumOf(fd.ty)[i].name)),
                  JNumber(IF IsSome(EnumOf(fd.ty)[i].discriminant)
                          THEN Unwrap(EnumOf(fd.ty)[i].discriminant) ELSE i - 1),
                  JNumber(i - 1)} : i \in 1..Len(EnumOf(fd.ty))}
          \cup {JString(Bogus)}
     [] fd.ty = "String" -> {JString(<<"a">>), JNumber(1)}
     [] fd.ty = "i32" -> {JNumber(2), JString(<<"2">>)}
     [] fd.ty = "bool" -> {JBool(TRUE), JBool(FALSE)})

\* The keys a received document may use for a field: its wire name, its
\* Rust name and the camelCase form of its Rust name.
KeyInputs(struct, fd) == {WireName(struct, fd), fd.name, CamelCase(fd.name)}

\* What a received document may hold for one field: nothing, or one member.
FragmentInputs(struct, fd) ==
  {<<>>} \cup {<<Member(key, j)>> : key \in KeyInputs(struct, fd), j \in JsonInputs(fd)}

RECURSIVE DocsFrom(_, _)
DocsFrom(struct, i) ==
  IF i > Len(struct.fields) THEN {<<>>}
  ELSE {a \o b : a \in FragmentInputs(struct, struct.fields[i]), b \in DocsFrom(struct, i + 1)}

\* The documents received for a kind of structure.
DocInputs(kind) == DocsFrom(StructOf(kind), 1)

\* The kinds of structure that documents are decoded into.
DecodedKinds ==
  {"BulkStatusInfo", "AddDomainRequestBody", "UpdateTrackingRequestBody",
   "UpdateScheduledStatusRequestBody"}

\* ------------------------------------------------------------------ state

NoObj == [kind |-> "none", f |-> <<>>]

NoDoc == <<>>

\* obj: the structure the caller holds.  out: the outcome of the last call.
\* rx: Some(document) while obj is the decoding of that document, else None.
\* nsets: the field assignments made on obj.
\* checked: what the caller knows of obj's current field values: "ok" or
\* "failed" once validate() has been called on them, "unchecked" before.

\* The outcome of the last call: of validate() its errors, of a
\* serialization its document, of a deserialization whether it succeeded.
Outcome(op, kind, ok, errors, doc) ==
  [op |-> op, kind |-> kind, ok |-> ok, errors |-> errors, doc |-> doc]

Init ==
  /\ obj = NoObj
  /\ out = Outcome("none", "none", TRUE, {}, NoDoc)
  /\ rx = None
  /\ nsets = 0
  /\ checked = "unchecked"

\* A constructor is called and the caller holds the structure it returns.
\* Structures are independent of each other, so a behaviour follows one.
NewSendRequestBody ==
  /\ obj = NoObj
  /\ out.op = "none"
  /\ \E to \in Values(FieldOf("SendRequestBody", "to")) :
       obj' = SendRequestBody_new(to)
  /\ out' = Outcome("new", "SendRequestBody", TRUE, {}, NoDoc)
  /\ rx' = None
  /\ nsets' = 0
  /\ checked' = "unchecked"

NewGetBulksQueryParameters ==
  /\ obj = NoObj
  /\ out.op = "none"
  /\ \E bulk_id \in Values(FieldOf("GetBulksQueryParameters", "bulk_id")) :
       obj' = GetBulksQueryParameters_new(bulk_id)
  /\ out' = Outcome("new", "GetBulksQueryParameters", TRUE, {}, NoDoc)
  /\ rx' = None
  /\ nsets' = 0
  /\ checked' = "unchecked"

NewRescheduleRequestBody ==
  /\ obj = NoObj
  /\ out.op = "none"
  /\ \E send_at \in Values(FieldOf("RescheduleRequestBody", "send_at")) :
       obj' = RescheduleRequestBody_new(send_at)
  /\ out' = Outcome("new", "RescheduleRequestBody", TRUE, {}, NoDoc)
  /\ rx' = None
  /\ nsets' = 0
  /\ checked' = "unchecked"

NewUpdateScheduledStatusRequestBody ==
  /\ obj = NoObj
  /\ out.op = "none"
  /\ \E status \in VariantIds("BulkStatus") :
       obj' = UpdateScheduledStatusRequestBody_new(status)
  /\ out' = Outcome("new", "UpdateScheduledStatusRequestBody", TRUE, {}, NoDoc)
  /\ rx' = None
  /\ nsets' = 0
  /\ checked' = "unchecked"

NewGetDeliveryReportsQueryParameters ==
  /\ obj = NoObj
  /\ out.op = "none"
  /\ obj' = GetDeliveryReportsQueryParameters_new
  /\ out' = Outcome("new", "GetDeliveryReportsQueryParameters", TRUE, {}, NoDoc)
  /\ rx' = None
  /\ nsets' = 0
  /\ checked' = "unchecked"

NewGetLogsQueryParameters ==
  /\ obj = NoObj
  /\ out.op = "none"
  /\ obj' = GetLogsQueryParameters_new
  /\ out' = Outcome("new", "GetLogsQueryParameters", TRUE, {}, NoDoc)
  /\ rx' = None
  /\ nsets' = 0
  /\ checked' = "unchecked"

NewValidateAddressRequestBody ==
  /\ obj = NoObj
  /\ out.op = "none"
  /\ \E to \in Values(FieldOf("ValidateAddressRequestBody", "to")) :
       obj' = ValidateAddressRequestBody_new(to)
  /\ out' = Outcome("new", "ValidateAddressRequestBody", TRUE, {}, NoDoc)
  /\ rx' = None
  /\ nsets' = 0
  /\ checked' = "unchecked"

NewGetDomainsQueryParameters ==
  /\ obj = NoObj
  /\ out.op = "none"
  /\ obj' = GetDomainsQueryParameters_new
  /\ out' = Outcome("new", "GetDomainsQueryParameters", TRUE, {}, NoDoc)
  /\ rx' = None
  /\ nsets' = 0
  /\ checked' = "unchecked"

NewAddDomainRequestBody ==
  /\ obj = NoObj
  /\ out.op = "none"
  /\ \E domain_name \in Values(FieldOf("AddDomainRequestBody", "domain_name")) :
       obj' = AddDomainRequestBody_new(domain_name)
  /\ out' = Outcome("new", "AddDomainRequestBody", TRUE, {}, NoDoc)
  /\ rx' = None
  /\ nsets' = 0
  /\ checked' = "unchecked"

NewUpdateTrackingRequestBody ==
  /\ obj = NoObj
  /\ out.op = "none"
  /\ obj' = UpdateTrackingRequestBody_new
  /\ out' = Outcome("new", "UpdateTrackingRequestBody", TRUE, {}, NoDoc)
  /\ rx' = None
  /\ nsets' = 0
  /\ checked' = "unchecked"

\* The caller assigns a new value to a pub field of the structure it holds;
\* the structure is then no longer the decoding of a document.
SetField ==
  /\ obj.kind # "none"
  /\ nsets < MaxSets
  /\ \E id \in FieldIds(obj.kind) :
       /\ IsPub(obj.kind, id)
       /\ \E v \in SetInputs(FieldOf(obj.kind, id)) :
            /\ v # obj.f[id]
            /\ obj' = [obj EXCEPT !.f[id] = v]
  /\ out' = Outcome("set", obj.kind, TRUE, {}, NoDoc)
  /\ rx' = None
  /\ nsets' = nsets + 1
  /\ checked' = "unchecked"

\* CallValidate with a validate() that first replaces an empty subject by
\* None.
CallValidateNormalising ==
  /\ obj.kind # "none"
  /\ StructOf(obj.kind).validate
  /\ obj' = IF obj.kind = "SendRequestBody" /\ obj.f.subject = Some(<<>>)
            THEN [obj EXCEPT !.f.subject = None] ELSE obj
  /\ out' = Outcome("validate", obj.kind, IsOk(Validate(obj')), Validate(obj'), NoDoc)
  /\ checked' = IF IsOk(Validate(obj')) THEN "ok" ELSE "failed"
  /\ UNCHANGED <<rx, nsets>>

\* The caller calls validate() on the structure it holds.
CallValidate ==
  /\ obj.kind # "none"
  /\ StructOf(obj.kind).validate
  /\ out' = Outcome("validate", obj.kind, IsOk(Validate(obj)), Validate(obj), NoDoc)
  /\ checked' = IF IsOk(Validate(obj)) THEN "ok" ELSE "failed"
  /\ UNCHANGED <<obj, rx, nsets>>

\* The structure is serialized to a JSON document.
Serialize ==
  /\ obj.kind # "none"
  /\ out' = Outcome("serialize", obj.kind, TRUE, {}, ToJson(obj))
  /\ UNCHANGED <<obj, rx, nsets, checked>>

\* A received JSON document is deserialized, here before any request is
\* built: the result does not depend on the structure the caller holds, so
\* decoding from the initial state reaches every outcome.  On success the caller holds the decoded structure and rx
\* records the document it came from; on failure it holds none.
Deserialize ==
  /\ out.op = "none"
  /\ \E kind \in DecodedKinds : \E doc \in DocInputs(kind) :
       LET r == FromJson(kind, doc)
       IN  /\ out' = Outcome("deserialize", kind, r.ok, {}, doc)
           /\ obj' = IF r.ok THEN r.value ELSE NoObj
           /\ rx' = IF r.ok THEN Some(doc) ELSE None
           /\ nsets' = 0
           /\ checked' = "unchecked"
  /\ checked' = "unchecked"

\* ------------------------------------------------------- nested documents

\* Documents received for structures that hold other structures, each with
\* the kind it is decoded into.
NestedDocs ==
  << [kind |-> "SendResponseBody",
      doc |-> <<>>],
     [kind |-> "SendResponseBody",
      doc |-> <<Member(<<"b","u","l","k","I","d">>, JString(<<"a">>))>>],
     [kind |-> "SendResponseBody",
      doc |-> <<Member(<<"m","e","s","s","a","g","e","s">>, JArray(<<>>))>>],
     [kind |-> "SendResponseBody",
      doc |-> <<Member(<<"b","u","l","k","I","d">>, JString(<<"a">>)),
               Member(<<"m","e","s","s","a","g","e","s">>, JArray(<<JObject(<<Member(<<"t","o">>, JString(<<"a">>)), Member(<<"s","t","a","t","u","s">>, JObject(<<Member(<<"g","r","o","u","p","I","d">>, JNumber(1)), Member(<<"n","a","m","e">>, JString(<<"a">>))>>))>>), JObject(<<>>)>>))>>],
     [kind |-> "SendResponseBody",
      doc |-> <<Member(<<"m","e","s","s","a","g","e","s">>, JArray(<<JObject(<<Member(<<"s","t","a","t","u","s">>, JString(<<"a">>))>>)>>))>>],
     [kind |-> "SendResponseBody",
      doc |-> <<Member(<<"m","e","s","s","a","g","e","s">>, JObject(<<>>))>>],
     [kind |-> "SendResponseBody",
      doc |-> <<Member(<<"m","e","s","s","a","g","e","s">>, JNull),
               Member(<<"e","x","t","r","a">>, JNumber(1))>>],
     [kind |-> "BulkInfo",
      doc |-> <<Member(<<"b","u","l","k","I","d">>, JString(<<"a">>)),
               Member(<<"s","e","n","d","A","t">>, JNumber(2))>>],
     [kind |-> "BulkInfo",
      doc |-> <<Member(<<"s","e","n","d","A","t">>, JNumber(-1))>>],
     [kind |-> "Message",
      doc |-> <<Member(<<"d","e","s","t","i","n","a","t","i","o","n","s">>, JArray(<<JObject(<<Member(<<"t","o">>, JString(<<"4","1","7","9","3","0","2","6","7","2","7">>))>>)>>)),
               Member(<<"f","r","o","m">>, JString(<<"I","n","f","o","S","M","S">>)),
               Member(<<"t","e","x","t">>, JString(<<"T","h","i","s"," ","i","s"," ","a"," ","s","a","m","p","l","e"," ","m","e","s","s","a","g","e">>))>>],
     [kind |-> "Message",
      doc |-> <<Member(<<"d","e","s","t","i","n","a","t","i","o","n","s">>, JArray(<<JObject(<<Member(<<"t","o">>, JString(<<"4">>))>>)>>))>>],
     [kind |-> "Message",
      doc |-> <<Member(<<"f","r","o","m">>, JString(<<"I","n","f","o","S","M","S">>))>>],
     [kind |-> "Message",
      doc |-> <<Member(<<"d","e","s","t","i","n","a","t","i","o","n","s">>, JArray(<<JObject(<<Member(<<"t","o">>, JString(<<"4">>))>>)>>)),
               Member(<<"t","e","x","t">>, JNumber(1))>>] >>

\* A received document of a nested structure is deserialized, as in
\* Deserialize.
DeserializeNested ==
  /\ out.op = "none"
  /\ obj = NoObj
  /\ \E i \in 1..Len(NestedDocs) :
       LET r == FromJson(NestedDocs[i].kind, NestedDocs[i].doc)
       IN  /\ out' = Outcome("deserialize", NestedDocs[i].kind, r.ok, {}, NestedDocs[i].doc)
           /\ obj' = IF r.ok THEN r.value ELSE NoObj
           /\ rx' = IF r.ok THEN Some(NestedDocs[i].doc) ELSE None
           /\ nsets' = 0
           /\ checked' = "unchecked"

Next ==
  \/ NewSendRequestBody
  \/ NewGetBulksQueryParameters
  \/ NewRescheduleRequestBody
  \/ NewUpdateScheduledStatusRequestBody
  \/ NewGetDeliveryReportsQueryParameters
  \/ NewGetLogsQueryParameters
  \/ NewValidateAddressRequestBody
  \/ NewGetDomainsQueryParameters
  \/ NewAddDomainRequestBody
  \/ NewUpdateTrackingRequestBody
  \/ SetField
  \/ CallValidate
  \/ Serialize
  \/ Deserialize
  \/ DeserializeNested

Spec == Init /\ [][Next]_vars

\* ---------------------------------------------- validation on drawn inputs

\* o with field id assigned v.
With(o, id, v) == [o EXCEPT !.f[id] = v]

\* Send requests with every combination of the constrained fields.
SendRequestInputs ==
  {With(With(With(With(SendRequestBody_new(to),
        "subject", subject), "callback_data", callback_data),
        "notify_url", notify_url), "tracking_url", tracking_url) :
     to \in Values(FieldOf("SendRequestBody", "to")),
     subject \in SetInputs(FieldOf("SendRequestBody", "subject")),
     callback_data \in SetInputs(FieldOf("SendRequestBody", "callback_data")),
     notify_url \in SetInputs(FieldOf("SendRequestBody", "notify_url")),
     tracking_url \in SetInputs(FieldOf("SendRequestBody", "tracking_url"))}

\* Paging parameters with every combination of size and page.
GetDomainsInputs ==
  {With(With(GetDomainsQueryParameters_new, "size", size), "page", page) :
     size \in SetInputs(FieldOf("GetDomainsQueryParameters", "size")),
     page \in SetInputs(FieldOf("GetDomainsQueryParameters", "page"))}

\* Send requests with every combination of presence of the content fields.
ContentInputs ==
  {With(With(With(With(SendRequestBody_new(Text(1)),
        "template_id", template_id), "subject", subject), "text", text), "html", html) :
     template_id \in SetInputs(FieldOf("SendRequestBody", "template_id")),
     subject \in SetInputs(FieldOf("SendRequestBody", "subject")),
     text \in SetInputs(FieldOf("SendRequestBody", "text")),
     html \in SetInputs(FieldOf("SendRequestBody", "html"))}

InitInputs ==
  /\ \/ obj \in SendRequestInputs
     \/ obj \in GetDomainsInputs
     \/ obj \in ContentInputs
  /\ out = Outcome("none", "none", TRUE, {}, NoDoc)
  /\ rx = None
  /\ nsets = 0
  /\ checked = "unchecked"

NextInputs == CallValidate

\* validate() applied to structures whose constrained fields are drawn
\* from the inputs.
SpecInputs == InitInputs /\ [][NextInputs]_vars

\* ------------------------------------------------------------ SMS requests

\* The address the tests send to.
Number == <<"1","2","3","4","5","6","7","8","9","0","1","2">>

\* The message of the tests: one destination with a non-empty address.
PlainMessage == Message_new(<<Destination_new(Number)>>)

\* Messages with each shape of destination list, with and without a text.
StructureMessages ==
  {With(Message_new(ds), "text", text) :
     ds \in {<<>>, <<Destination_new(<<>>)>>, <<Destination_new(Number)>>,
             <<Destination_new(Number), Destination_new(<<>>)>>},
     text \in {None, Some(Text(2))}}

\* Regional options: none set, and India and Turkey entries good and bad.
RegionalInputs ==
  {With(With(RegionalOptions_new, "india_dlt", india), "turkey_iys", turkey) :
     india \in {None, Some(IndiaDlt_new(<<>>)), Some(IndiaDlt_new(Text(2)))},
     turkey \in {None, Some(TurkeyIys_new(<<>>)), Some(TurkeyIys_new(<<"B","A","D">>)),
                 Some(TurkeyIys_new(<<"T","A","C","I","R">>)),
                 Some(TurkeyIys_new(<<"B","I","R","E","Y","S","E","L">>))}}

\* Delivery times: hours and minutes at zero and around their upper bound.
TimeInputs ==
  {None} \cup {Some(DeliveryTime_new(hour, minute)) :
                 hour \in {0} \cup Near(HourMax), minute \in {0} \cup Near(MinuteMax)}

\* Delivery time windows: no day, one day, two days, with every from and to.
WindowInputs ==
  {With(With(DeliveryTimeWindow_new(days), "from", from), "to", to) :
     days \in {<<>>, <<"MONDAY">>, <<"MONDAY", "TUESDAY">>},
     from \in TimeInputs, to \in TimeInputs}

\* Speed limits: amounts around zero, the tests' 5 and i32::MAX, with and
\* without a time unit.
SpeedLimitInputs ==
  {With(SpeedLimit_new(amount), "time_unit", time_unit) :
     amount \in Near(0) \cup {5, I32Max},
     time_unit \in {None} \cup {Some(u) : u \in VariantIds("TimeUnit")}}

\* Send requests: no message, one or two messages of each shape, and the
\* tests' message with each regional option, each delivery time window and
\* each speed limit, also as the second of two messages.
SmsInputs ==
  {Sms_SendRequestBody_new(<<>>)}
  \cup {Sms_SendRequestBody_new(<<m>>) : m \in StructureMessages}
  \cup {Sms_SendRequestBody_new(<<m1, m2>>) : m1 \in StructureMessages, m2 \in StructureMessages}
  \cup {Sms_SendRequestBody_new(<<With(PlainMessage, "regional", r)>>) :
          r \in {None} \cup {Some(x) : x \in RegionalInputs}}
  \cup {Sms_SendRequestBody_new(<<PlainMessage, With(PlainMessage, "regional", Some(x))>>) :
          x \in RegionalInputs}
  \cup {Sms_SendRequestBody_new(<<With(PlainMessage, "delivery_time_window", Some(w))>>) :
          w \in WindowInputs}
  \cup {With(Sms_SendRequestBody_new(<<PlainMessage>>), "sending_speed_limit", Some(s)) :
          s \in SpeedLimitInputs}

InitSms ==
  /\ obj \in SmsInputs
  /\ out = Outcome("none", "none", TRUE, {}, NoDoc)
  /\ rx = None
  /\ nsets = 0
  /\ checked = "unchecked"

NextSms ==
  \/ CallValidate
  \/ Serialize

\* validate() and serialization applied to SMS send requests drawn from the
\* inputs.
SpecSms == InitSms /\ [][NextSms]_vars

\* ------------------------------------------------------------------ claims

\* The structure was built by a constructor and validated as built.
FreshlyValidated == out.op = "validate" /\ nsets = 0 /\ rx = None

RequiredStrings(kind) ==
  {id \in FieldIds(kind) : FieldOf(kind, id).ty = "String" /\ ~FieldOf(kind, id).opt}

\* Every field of o outside except satisfies its rules.
OthersValid(o, except) ==
  \A id \in FieldIds(o.kind) \ except : FieldErrors(FieldOf(o.kind, id), o.f[id]) = {}

\* C1 as stated: validate() succeeds on every freshly constructed request,
\* whatever the constructor's arguments.
C1_FreshAlwaysValid == FreshlyValidated => out.ok

\* C1 as amended: validate() succeeds on every freshly constructed request
\* whose required string arguments are all non-empty (the argument-less
\* constructors and UpdateScheduledStatusRequestBody::new have none).
C1_FreshValidWhenArgsNonEmpty ==
  (FreshlyValidated /\ \A id \in RequiredStrings(obj.kind) : obj.f[id] # <<>>) => out.ok

C1_Witness ==
  /\ FreshlyValidated
  /\ obj.kind = "SendRequestBody"
  /\ obj.f.to = Text(1)
  /\ out.ok

\* C2: a serialized document holds no key for an optional field that is
\* unset, for every structure and every optional field.
C2_UnsetOptionalOmitted ==
  out.op = "serialize" =>
    \A id \in FieldIds(obj.kind) :
      (FieldOf(obj.kind, id).opt /\ obj.f[id] = None)
        => ~HasKey(out.doc, WireName(StructOf(obj.kind), FieldOf(obj.kind, id)))

\* C3: with the other fields valid, validate() on a send request succeeds
\* exactly when subject is absent or has between 1 and 150 characters.
C3_SubjectLength ==
  (out.op = "validate" /\ obj.kind = "SendRequestBody" /\ OthersValid(obj, {"subject"})) =>
    (out.ok <=> \/ obj.f.subject = None
               \/ /\ Len(Unwrap(obj.f.subject)) >= 1
                  /\ Len(Unwrap(obj.f.subject)) <= 150)

C3_Witness ==
  /\ out.op = "validate"
  /\ obj.kind = "SendRequestBody"
  /\ obj.f.subject = Some(Text(150))
  /\ out.ok

\* C4: with the other fields valid, validate() on a send request succeeds
\* exactly when callback_data is absent or has at most 4000 characters (the
\* empty string included).
C4_CallbackDataLength ==
  (out.op = "validate" /\ obj.kind = "SendRequestBody" /\ OthersValid(obj, {"callback_data"})) =>
    (out.ok <=> \/ obj.f.callback_data = None
               \/ Len(Unwrap(obj.f.callback_data)) <= 4000)

C4_Witness ==
  /\ out.op = "validate"
  /\ obj.kind = "SendRequestBody"
  /\ obj.f.callback_data = Some(Text(4001))
  /\ OthersValid(obj, {"callback_data"})
  /\ ~out.ok

\* The required string field of each structure that has one.
RequiredFieldOf(kind) ==
  CASE kind = "SendRequestBody" -> "to"
    [] kind = "GetBulksQueryParameters" -> "bulk_id"
    [] kind = "RescheduleRequestBody" -> "send_at"
    [] kind = "AddDomainRequestBody" -> "domain_name"
    [] kind = "ValidateAddressRequestBody" -> "to"

SingleRequiredKinds ==
  {"GetBulksQueryParameters", "RescheduleRequestBody", "AddDomainRequestBody",
   "ValidateAddressRequestBody"}

\* C5: validate() fails whenever the required string field is empty, and
\* on the structures with a single required field it succeeds exactly when
\* that field has at least one character.
C5_RequiredStringNonEmpty ==
  (out.op = "validate" /\ obj.kind \in SingleRequiredKinds \cup {"SendRequestBody"}) =>
    /\ obj.f[RequiredFieldOf(obj.kind)] = <<>> => ~out.ok
    /\ obj.kind \in SingleRequiredKinds =>
         (out.ok <=> Len(obj.f[RequiredFieldOf(obj.kind)]) >= 1)

C5_Witness ==
  /\ out.op = "validate"
  /\ obj.kind = "GetBulksQueryParameters"
  /\ obj.f.bulk_id = <<>>
  /\ ~out.ok

GoodUrls ==
  { <<"h","t","t","p","s",":","/","/","s","o","m","e",".","u","r","l">>,
    <<"a",":","b">> }

UrlError(id) == [field |-> id, code |-> "url"] \in out.errors

\* C7: notify_url and tracking_url are checked each on its own: the field
\* is reported, and validate() fails, exactly when it is present and is not
\* a well-formed URL.
C7_UrlFieldsIndependent ==
  (out.op = "validate" /\ obj.kind = "SendRequestBody") =>
    \A id \in {"notify_url", "tracking_url"} :
      /\ UrlError(id) <=> (IsSome(obj.f[id]) /\ Unwrap(obj.f[id]) \notin GoodUrls)
      /\ UrlError(id) => ~out.ok

C7_Witness ==
  /\ out.op = "validate"
  /\ obj.kind = "SendRequestBody"
  /\ obj.f.notify_url = Some(<<"a",":","b">>)
  /\ obj.f.tracking_url = Some(<<"a","b","c">>)
  /\ out.errors = {[field |-> "tracking_url", code |-> "url"]}

K_dkimKeyLength == <<"d","k","i","m","K","e","y","L","e","n","g","t","h">>

\* C8: a DKIM key length that is set is serialized as the JSON number 1024
\* or 2048.
C8_DkimKeyLengthIsNumber ==
  (out.op = "serialize" /\ obj.kind = "AddDomainRequestBody" /\ IsSome(obj.f.dkim_key_length)) =>
    /\ HasKey(out.doc, K_dkimKeyLength)
    /\ ValueAt(out.doc, K_dkimKeyLength) =
         JNumber(IF Unwrap(obj.f.dkim_key_length) = "L1024" THEN 1024 ELSE 2048)

K_status == <<"s","t","a","t","u","s">>

\* The structures with an enumerated field, that field and its wire key.
EnumKinds == {"BulkStatusInfo", "UpdateScheduledStatusRequestBody", "AddDomainRequestBody"}

EnumFieldOf(kind) == IF kind = "AddDomainRequestBody" THEN "dkim_key_length" ELSE "status"

EnumKeyOf(kind) == IF kind = "AddDomainRequestBody" THEN K_dkimKeyLength ELSE K_status

\* The tokens of each enumeration, as JSON strings.
TokensOf(kind) ==
  IF kind = "AddDomainRequestBody"
  THEN { <<"1","0","2","4">>, <<"2","0","4","8">> }
  ELSE { <<"P","E","N","D","I","N","G">>, <<"P","A","U","S","E","D">>,
         <<"P","R","O","C","E","S","S","I","N","G">>, <<"C","A","N","C","E","L","E","D">>,
         <<"F","I","N","I","S","H","E","D">>, <<"F","A","I","L","E","D">> }

K_open == <<"o","p","e","n">>

K_opens == <<"o","p","e","n","s">>

K_clicks == <<"c","l","i","c","k","s">>

K_unsubscribe == <<"u","n","s","u","b","s","c","r","i","b","e">>

\* C10: in UpdateTrackingRequestBody, opens is written under the key open
\* and never under opens, clicks and unsubscribe under their own names; a
\* document's key open populates opens, and nothing else does.
C10_OpensOnTheWireIsOpen ==
  /\ (out.op = "serialize" /\ obj.kind = "UpdateTrackingRequestBody") =>
       /\ ~HasKey(out.doc, K_opens)
       /\ IsSome(obj.f.opens) <=> HasKey(out.doc, K_open)
       /\ IsSome(obj.f.opens) => ValueAt(out.doc, K_open) = JBool(Unwrap(obj.f.opens))
       /\ IsSome(obj.f.clicks) <=> HasKey(out.doc, K_clicks)
       /\ IsSome(obj.f.unsubscribe) <=> HasKey(out.doc, K_unsubscribe)
  /\ (out.op = "deserialize" /\ out.kind = "UpdateTrackingRequestBody" /\ out.ok) =>
       /\ (HasKey(out.doc, K_open) /\ ValueAt(out.doc, K_open).k = "bool") =>
            obj.f.opens = Some(ValueAt(out.doc, K_open) = JBool(TRUE))
       /\ ~HasKey(out.doc, K_open) => obj.f.opens = None

C10_Witness ==
  /\ out.op = "deserialize"
  /\ out.kind = "UpdateTrackingRequestBody"
  /\ out.ok
  /\ out.doc = <<Member(K_open, JBool(TRUE))>>
  /\ obj.f.opens = Some(TRUE)

\* The fields of an email send request whose value breaks their constraint,
\* stated on the values: an empty to, a subject outside 1..150 characters,
\* a callback_data over 4000 characters, a notify_url or tracking_url that
\* is no URL.
ViolatingFields ==
  (IF obj.f.to = <<>> THEN {"to"} ELSE {})
  \cup (IF IsSome(obj.f.subject) /\ Len(Unwrap(obj.f.subject)) \notin 1..150
        THEN {"subject"} ELSE {})
  \cup (IF IsSome(obj.f.callback_data) /\ Len(Unwrap(obj.f.callback_data)) > 4000
        THEN {"callback_data"} ELSE {})
  \cup (IF IsSome(obj.f.notify_url) /\ Unwrap(obj.f.notify_url) \notin GoodUrls
        THEN {"notify_url"} ELSE {})
  \cup (IF IsSome(obj.f.tracking_url) /\ Unwrap(obj.f.tracking_url) \notin GoodUrls
        THEN {"tracking_url"} ELSE {})

\* C11: when validate() is called on an email send request, the fields its
\* failure reports are exactly the fields whose constraint is violated: all
\* of them, not only the first.
C11_AllViolationsReported ==
  (out.op = "validate" /\ obj.kind = "SendRequestBody")
    => {e.field : e \in out.errors} = ViolatingFields

\* Four fields violated at once, and the one failure reports the four.
C11_Witness ==
  /\ out.op = "validate"
  /\ obj.kind = "SendRequestBody"
  /\ obj.f.to = <<>>
  /\ obj.f.subject = Some(Text(151))
  /\ obj.f.callback_data = Some(Text(4001))
  /\ obj.f.notify_url = Some(<<"a","b","c">>)
  /\ {e.field : e \in out.errors} = {"to", "subject", "callback_data", "notify_url"}

SmsValidated == out.op = "validate" /\ obj.kind = "sms::SendRequestBody"

NoMessages == Len(obj.f.messages) = 0

EmptyDestinationList ==
  \E i \in 1..Len(obj.f.messages) : Len(obj.f.messages[i].f.destinations) = 0

EmptyDestinationTo ==
  \E i \in 1..Len(obj.f.messages) :
     \E j \in 1..Len(obj.f.messages[i].f.destinations) :
        obj.f.messages[i].f.destinations[j].f.to = <<>>

\* No message carries an optional sub-object and the request no speed limit.
NoSubObjects ==
  /\ obj.f.sending_speed_limit = None
  /\ \A i \in 1..Len(obj.f.messages) :
        /\ obj.f.messages[i].f.regional = None
        /\ obj.f.messages[i].f.delivery_time_window = None

\* C13: an SMS send request with no message, with a message that has no
\* destination, or with a destination whose to is empty fails validation;
\* one with at least one message, each with at least one destination, all
\* addresses non-empty, and no optional sub-object, succeeds.
C13_SmsStructure ==
  SmsValidated =>
    /\ (NoMessages \/ EmptyDestinationList \/ EmptyDestinationTo) => ~out.ok
    /\ (~NoMessages /\ ~EmptyDestinationList /\ ~EmptyDestinationTo /\ NoSubObjects)
         => out.ok

\* Two messages, the second with an empty address after a good one: the
\* request fails.
C13_Witness ==
  /\ SmsValidated
  /\ Len(obj.f.messages) = 2
  /\ obj.f.messages[1] = PlainMessage
  /\ obj.f.messages[2].f.destinations = <<Destination_new(Number), Destination_new(<<>>)>>
  /\ ~out.ok

\* The request holds the tests' one message with a delivery time window and
\* nothing else.
OnlyWindow ==
  /\ obj.kind = "sms::SendRequestBody"
  /\ Len(obj.f.messages) = 1
  /\ obj.f.sending_speed_limit = None
  /\ obj.f.messages[1].f.destinations = <<Destination_new(Number)>>
  /\ obj.f.messages[1].f.regional = None
  /\ IsSome(obj.f.messages[1].f.delivery_time_window)

Window == Unwrap(obj.f.messages[1].f.delivery_time_window)

TimeInRange(t) ==
  ~IsSome(t) \/ (Unwrap(t).f.hour \in 0..23 /\ Unwrap(t).f.minute \in 0..59)

\* C14: a send request whose message carries a delivery time window
\* validates exactly when the window has at least one day and each of from
\* and to, when set, has its hour in [0,23] and its minute in [0,59].
C14_DeliveryTimeWindow ==
  (out.op = "validate" /\ OnlyWindow) =>
    (out.ok <=> (/\ Len(Window.f.days) >= 1
                 /\ TimeInRange(Window.f.from)
                 /\ TimeInRange(Window.f.to)))

\* A window on MONDAY from 23:59 to 24:00: the whole request fails.
C14_Witness ==
  /\ out.op = "validate"
  /\ OnlyWindow
  /\ Window.f.days = <<"MONDAY">>
  /\ Window.f.from = Some(DeliveryTime_new(23, 59))
  /\ Window.f.to = Some(DeliveryTime_new(24, 0))
  /\ ~out.ok

\* Every message has the tests' destination and no delivery time window,
\* and the request no speed limit.
OnlyRegional ==
  /\ obj.kind = "sms::SendRequestBody"
  /\ Len(obj.f.messages) >= 1
  /\ obj.f.sending_speed_limit = None
  /\ \A i \in 1..Len(obj.f.messages) :
        /\ obj.f.messages[i].f.destinations = <<Destination_new(Number)>>
        /\ obj.f.messages[i].f.delivery_time_window = None

RegionalAccepted(r) ==
  \/ ~IsSome(r)
  \/ /\ (IsSome(Unwrap(r).f.india_dlt)
          => Unwrap(Unwrap(r).f.india_dlt).f.principal_entity_id # <<>>)
     /\ (IsSome(Unwrap(r).f.turkey_iys)
          => Unwrap(Unwrap(r).f.turkey_iys).f.recipient_type
               \in {<<"B","I","R","E","Y","S","E","L">>, <<"T","A","C","I","R">>})

\* C15: regional sub-objects are validated only when present: a send
\* request validates exactly when every message has no regional options,
\* or regional options whose India entry, if any, has a non-empty principal
\* entity id and whose Turkey entry, if any, has a recipient type of the
\* fixed vocabulary.
C15_RegionalOptions ==
  (out.op = "validate" /\ OnlyRegional) =>
    (out.ok <=> \A i \in 1..Len(obj.f.messages) : RegionalAccepted(obj.f.messages[i].f.regional))

\* A Turkey entry with recipient type BAD on the second message: the whole
\* request fails.
C15_Witness ==
  /\ out.op = "validate"
  /\ OnlyRegional
  /\ Len(obj.f.messages) = 2
  /\ obj.f.messages[1].f.regional = None
  /\ obj.f.messages[2].f.regional
       = Some(With(RegionalOptions_new, "turkey_iys", Some(TurkeyIys_new(<<"B","A","D">>))))
  /\ ~out.ok

\* The request holds the tests' one message and a speed limit.
OnlySpeedLimit ==
  /\ obj.kind = "sms::SendRequestBody"
  /\ obj.f.messages = <<PlainMessage>>
  /\ IsSome(obj.f.sending_speed_limit)

SpeedLimitOf == Unwrap(obj.f.sending_speed_limit)

\* C16: a speed limit with a non-negative amount, 0 included, validates;
\* amount 5 with time unit DAY is written as "amount":5,"timeUnit":"DAY",
\* and a speed limit without time unit is written without the timeUnit key.
C16_SpeedLimit ==
  /\ (out.op = "validate" /\ OnlySpeedLimit /\ SpeedLimitOf.f.amount >= 0) => out.ok
  /\ (out.op = "serialize" /\ OnlySpeedLimit) =>
       /\ (SpeedLimitOf.f.amount = 5 /\ SpeedLimitOf.f.time_unit = Some("DAY"))
            => Contains(JsonText(JObject(out.doc)),
                        <<"\"","a","m","o","u","n","t","\"",":","5",",","\"","t","i","m","e","U","n","i","t","\"",":","\"","D","A","Y","\"">>)
       /\ ~IsSome(SpeedLimitOf.f.time_unit)
            => ~Contains(JsonText(JObject(out.doc)), <<"t","i","m","e","U","n","i","t">>)

\* The tests' request with speed limit 5 per DAY, serialized.
C16_Witness ==
  /\ out.op = "serialize"
  /\ OnlySpeedLimit
  /\ SpeedLimitOf = With(SpeedLimit_new(5), "time_unit", Some("DAY"))
  /\ JsonText(JObject(out.doc))
       = <<"{","\"","m","e","s","s","a","g","e","s","\"",":","[","{","\"","d","e","s","t","i","n","a","t","i","o","n","s","\"",":","[","{","\"","t","o","\"",":","\"","1","2","3","4","5","6","7","8","9","0","1","2","\"","}","]","}","]",",","\"","s","e","n","d","i","n","g","S","p","e","e","d","L","i","m","i","t","\"",":","{","\"","a","m","o","u","n","t","\"",":","5",",","\"","t","i","m","e","U","n","i","t","\"",":","\"","D","A","Y","\"","}","}">>

\* -------------------------------------------------------------- decoding

IsScalar(ty) == ty \in {"String", "i32", "u64", "bool"} \/ IsEnum(ty)

\* The JSON value is of the shape the type is written in.
JsonMatches(ty, j) ==
  CASE ty = "String" -> j.k = "string"
    [] ty = "i32" -> j.k = "number" /\ IsIntLiteral(j.v)
    [] ty = "u64" -> j.k = "number" /\ IsNatLiteral(j.v)
    [] ty = "bool" -> j.k = "bool"
    [] IsEnum(ty) ->
         j.k = "string" /\ j.v \in {VariantWireName(EnumOf(ty)[i]) : i \in 1..Len(EnumOf(ty))}

\* The members of doc under the wire name of field id.
MembersFor(kind, id, doc) ==
  {i \in 1..Len(doc) : doc[i].key = WireName(StructOf(kind), FieldOf(kind, id))}

\* A well-formed document for a kind: it may miss any optional key and
\* carry unknown ones; each known key occurs once, on a field of scalar
\* type, with a value of that type (or null, for an optional field).
PlainDoc(kind, doc) ==
  \A id \in FieldIds(kind) :
     LET fd == FieldOf(kind, id)
         at == MembersFor(kind, id, doc)
     IN  /\ Cardinality(at) <= 1
         /\ at = {} => fd.opt
         /\ at # {} =>
              /\ IsScalar(fd.ty)
              /\ \A i \in at : JsonMatches(fd.ty, doc[i].val) \/ (fd.opt /\ doc[i].val.k = "null")

C18_CamelCaseOnTheWire ==
  (out.op = "serialize" /\ obj.kind # "Message") =>
    /\ \A i \in 1..Len(out.doc) :
          \A c \in 1..Len(out.doc[i].key) : out.doc[i].key[c] # "_"
    /\ \A id \in FieldIds(obj.kind) :
          LET fd == FieldOf(obj.kind, id)
          IN  (~fd.opt \/ IsSome(obj.f[id]))
                => HasKey(out.doc, IF IsSome(fd.rename) THEN Unwrap(fd.rename)
                                   ELSE CamelCase(fd.name))
    /\ ("bulk_id" \in FieldIds(obj.kind) /\ (obj.kind = "GetBulksQueryParameters" \/ IsSome(obj.f.bulk_id)))
          => HasKey(out.doc, <<"b","u","l","k","I","d">>)

\* ------------------------------------------------------------------ purity

C20_NoContentRule ==
  (out.op = "validate" /\ obj.kind = "SendRequestBody") =>
    /\ {e.field : e \in out.errors}
         \subseteq {"to", "subject", "callback_data", "notify_url", "tracking_url"}
    /\ (/\ obj.f.to # <<>>
        /\ (IsSome(obj.f.subject) => Len(Unwrap(obj.f.subject)) \in 1..150)
        /\ obj.f.callback_data = None
        /\ obj.f.notify_url = None
        /\ obj.f.tracking_url = None)
         => out.ok

\* A send request with none of template_id, subject, text and html passes.
C20_Witness ==
  /\ out.op = "validate"
  /\ obj.kind = "SendRequestBody"
  /\ obj.f.to # <<>>
  /\ obj.f.template_id = None
  /\ obj.f.subject = None
  /\ obj.f.text = None
  /\ obj.f.html = None
  /\ out.ok
====
